---- MODULE Spec2Model ----
(***************************************************************************)
(* Conway's Game of Life on a wrap-around grid: the Universe of            *)
(* src/src/lib.rs (width, height, cells) and its operations.               *)
(*                                                                         *)
(* cells is the flat row-major buffer, a sequence over {Dead, Alive}; the  *)
(* code's 0-based index idx is position idx + 1 of the sequence.           *)
(* Besides the three fields the state holds the outcome of the last call   *)
(* (status) and a record of the call history that the properties read:     *)
(* edit is the last call other than tick with its arguments, again says    *)
(* that the call before it was the same call, ticks counts the calls of    *)
(* tick since, and pre is the Universe before the last call. pc, next and  *)
(* k are tick()'s locals, used by the specification that runs tick() one   *)
(* cell at a time.                                                         *)
(***************************************************************************)
EXTENDS Integers, Sequences, FiniteSets, TLC

VARIABLES width, height, cells, status, edit, again, ticks, pre, pc, next, k

vars == <<width, height, cells, status, edit, again, ticks, pre, pc, next, k>>

(* ------------------------------ bounds -------------------------------- *)

\* Largest width and height that set_width and set_height are called with.
MaxDim == 3

\* Largest buffer (width * height) that set_width and set_height build.
MaxCells == 6

\* Largest buffer that reset() is called on: it has 2^(width * height)
\* outcomes.
MaxRandom == 4

\* Most calls of tick() in a row, with no other call in between.
MaxTicks == 1

\* The same on a grid with no Alive cell.
DeadTicks == 3

\* The same in the pattern scenarios.
SeedTicks == 4

\* The pattern scenarios start from an empty grid whose sides are SeedDim or
\* SeedDim + 1 (a glider, a block) or PulsarDim or PulsarDim + 1 (a pulsar),
\* and stamp at rows and columns -1 .. SeedPos.
SeedDim == 5

PulsarDim == 16

SeedPos == 6

\* The fields and arguments are u32 and i32 words of 32 bits. The model
\* computes with words of WordBits bits, two's complement as well, so that the
\* values at which the arithmetic wraps can be enumerated.
WordBits == 10

(* ------------------------------- Cell --------------------------------- *)

Dead == 0

Alive == 1

CellValues == {Dead, Alive}

\* new() builds a 64 x 64 grid; the model builds the same grid at
\* DefaultWidth x DefaultHeight so that its contents can be enumerated.
DefaultWidth == 2

DefaultHeight == 2

(* ------------------------- machine arithmetic -------------------------- *)

\* The number of values of a word: the u32 values are 0 .. Word - 1.
Word == 2 ^ WordBits

\* The i32 values are IntMin .. IntMax.
IntMin == -(Word \div 2)

IntMax == (Word \div 2) - 1

\* An arithmetic overflow panics in a build with overflow checks (debug) and
\* wraps in one without (release).
Builds == {"debug", "release"}

\* The builds a call is followed in: both when an operation of the call
\* overflows, one when none does (the two builds then do the same).
BuildsOf(overflows) == IF overflows THEN Builds ELSE {"release"}

\* v as u32: the word with the same bits.
as_u32(v) == v % Word

\* v as i32: the word with the same bits.
as_i32(v) == ((v - IntMin) % Word) + IntMin

\* i32::rem_euclid for a divisor that is not 0: the remainder in
\* 0 .. |rhs| - 1.
rem_euclid(lhs, rhs) == lhs % (IF rhs < 0 THEN -rhs ELSE rhs)

\* The remainder panics in every build: a zero divisor, or IntMin by -1.
RemPanics(lhs, rhs) == rhs = 0 \/ (lhs = IntMin /\ rhs = -1)

(* --------------------------- pure helpers ----------------------------- *)

\* The buffer (0..n).map(|_i| Cell::Dead).collect()
DeadCells(n) == [i \in 1..n |-> Dead]

\* The buffers (0..n).map(|_i| if random() > 0.5 {Dead} else {Alive}): any.
RandomCells(n) == [1..n -> CellValues]

\* A toggle that sets the cell instead of flipping it.
ToggleSetsAlive(cell) == Alive

\* Cell::toggle
toggle(cell) == IF cell = Dead THEN Alive ELSE Dead

\* Universe::get_index: row * self.width + column in u32, as the release
\* build computes it (the cast to usize keeps the value).
get_index(w, row, column) == (row * w + column) % Word

\* The product or the sum of get_index overflows.
IndexOverflows(w, row, column) == row * w + column >= Word

\* The row deltas of live_neighbor_count: [self.height - 1, 0, 1]
DeltaRows(w, h) == <<(h - 1) % Word, 0, 1>>

\* The column deltas of live_neighbor_count: [self.height - 1, 0, 1]
DeltaCols(w, h) == <<(h - 1) % Word, 0, 1>>

\* neighbor_row: (row + delta_row) % self.height, the sum as the release
\* build computes it.
NeighborRow(h, row, delta_row) == ((row + delta_row) % Word) % h

\* neighbor_col: (column + delta_col) % self.width
NeighborCol(w, column, delta_col) == ((column + delta_col) % Word) % w

\* One pass of the inner loop body of live_neighbor_count, for the pair of
\* deltas number i and j: whether it is skipped (continue), whether one of
\* its sums or its get_index overflows, and its idx.
NeighborPass(w, h, row, column, i, j) ==
    LET delta_row == DeltaRows(w, h)[i]
        delta_col == DeltaCols(w, h)[j]
        neighbor_row == NeighborRow(h, row, delta_row)
        neighbor_col == NeighborCol(w, column, delta_col)
    IN  [skipped |-> delta_row = 0 /\ delta_col = 0,
         overflows |-> \/ row + delta_row >= Word
                       \/ column + delta_col >= Word
                       \/ IndexOverflows(w, neighbor_row, neighbor_col),
         idx |-> get_index(w, neighbor_row, neighbor_col)]

\* What the pass adds to count: self.cells[idx] as u8.
NeighborTerm(cs, w, h, row, column, i, j) ==
    LET delta_row == DeltaRows(w, h)[i]
        delta_col == DeltaCols(w, h)[j]
    IN  IF delta_row = 0 /\ delta_col = 0
        THEN 0
        ELSE cs[get_index(w, NeighborRow(h, row, delta_row),
                             NeighborCol(w, column, delta_col)) + 1]

\* Universe::live_neighbor_count, for height >= 1 and width >= 1 (tick calls
\* it for no other grid).
live_neighbor_count(cs, w, h, row, column) ==
      NeighborTerm(cs, w, h, row, column, 1, 1)
    + NeighborTerm(cs, w, h, row, column, 1, 2)
    + NeighborTerm(cs, w, h, row, column, 1, 3)
    + NeighborTerm(cs, w, h, row, column, 2, 1)
    + NeighborTerm(cs, w, h, row, column, 2, 2)
    + NeighborTerm(cs, w, h, row, column, 2, 3)
    + NeighborTerm(cs, w, h, row, column, 3, 1)
    + NeighborTerm(cs, w, h, row, column, 3, 2)
    + NeighborTerm(cs, w, h, row, column, 3, 3)

\* A match whose last arm gives birth: a Dead cell with other than 3
\* neighbours becomes Alive.
NextCellGivesBirth(cell, live_neighbors) ==
    IF cell = Alive /\ live_neighbors < 2 THEN Dead
    ELSE IF cell = Alive /\ (live_neighbors = 2 \/ live_neighbors = 3) THEN Alive
    ELSE IF cell = Alive /\ live_neighbors > 3 THEN Dead
    ELSE Alive

\* The match of tick: the next state of a cell with live_neighbors neighbours.
next_cell(cell, live_neighbors) ==
    IF cell = Alive /\ live_neighbors < 2 THEN Dead
    ELSE IF cell = Alive /\ (live_neighbors = 2 \/ live_neighbors = 3) THEN Alive
    ELSE IF cell = Alive /\ live_neighbors > 3 THEN Dead
    ELSE IF cell = Dead /\ live_neighbors = 3 THEN Alive
    ELSE cell

\* The body of tick's loops for the cell at idx = row * width + col.
TickCellValue(cs, w, h, idx) ==
    next_cell(cs[idx + 1], live_neighbor_count(cs, w, h, idx \div w, idx % w))

\* The buffer tick() leaves when no pass of its loops panics: next starts as
\* a clone of cells and the loops over row < height and col < width overwrite
\* next[row * width + col].
TickCells(cs, w, h) ==
    [i \in 1..Len(cs) |->
        IF i <= w * h THEN TickCellValue(cs, w, h, i - 1) ELSE cs[i]]

\* The pass of tick's loops at (row, col) overflows: in its get_index or in
\* a pass of live_neighbor_count.
TickPassOverflows(w, h, row, col) ==
    \/ IndexOverflows(w, row, col)
    \/ \E i \in 1..3, j \in 1..3 :
          LET pass == NeighborPass(w, h, row, col, i, j)
          IN  ~pass.skipped /\ pass.overflows

\* The pass of tick's loops at (row, col) reads or writes outside the buffer.
TickPassOutside(cs, w, h, row, col) ==
    \/ get_index(w, row, col) >= Len(cs)
    \/ \E i \in 1..3, j \in 1..3 :
          LET pass == NeighborPass(w, h, row, col, i, j)
          IN  ~pass.skipped /\ pass.idx >= Len(cs)

\* Some pass of tick() overflows. The sums and the indices grow with row
\* and col and the index of a neighbour is that of a cell of the grid, so
\* that a pass overflows only if the pass of the last cell does.
TickOverflows(w, h) ==
    /\ w >= 1
    /\ h >= 1
    /\ TickPassOverflows(w, h, h - 1, w - 1)

\* tick() panics: in the debug build at an overflow, in every build at an
\* index outside the buffer. Every index of a pass is that of a cell of the
\* grid, below width * height: none is outside a buffer of that many cells.
TickPanics(build, cs, w, h) ==
    \/ build = "debug" /\ TickOverflows(w, h)
    \/ /\ Len(cs) < w * h
       /\ \E row \in 0..(h - 1), col \in 0..(w - 1) :
             TickPassOutside(cs, w, h, row, col)

\* The offsets of add_glider.
GliderOffsets == << <<-1, 0>>, <<0, 1>>, <<1, -1>>, <<1, 0>>, <<1, 1>> >>

\* The offsets of add_pulsar, in the order of the table.
PulsarOffsets ==
    << <<-6, -4>>, <<-6, -3>>, <<-6, -2>>, <<-6, 2>>, <<-6, 3>>, <<-6, 4>>,
       <<-4, -6>>, <<-4, -1>>, <<-4, 1>>, <<-4, 6>>,
       <<-3, -6>>, <<-3, -1>>, <<-3, 1>>, <<-3, 6>>,
       <<-2, -6>>, <<-2, -1>>, <<-2, 1>>, <<-2, 6>>,
       <<-1, -4>>, <<-1, -3>>, <<-1, -2>>, <<-1, 2>>, <<-1, 3>>, <<-1, 4>>,
       <<6, -4>>, <<6, -3>>, <<6, -2>>, <<6, 2>>, <<6, 3>>, <<6, 4>>,
       <<4, -6>>, <<4, -1>>, <<4, 1>>, <<4, 6>>,
       <<3, -6>>, <<3, -1>>, <<3, 1>>, <<3, 6>>,
       <<2, -6>>, <<2, -1>>, <<2, 1>>, <<2, 6>>,
       <<1, -4>>, <<1, -3>>, <<1, -2>>, <<1, 2>>, <<1, 3>>, <<1, 4>> >>

\* The largest size of a row or column offset of a table.
Span(offsets) ==
    CHOOSE n \in 0..IntMax :
        /\ \A i \in 1..Len(offsets) :
              /\ offsets[i][1] <= n /\ -offsets[i][1] <= n
              /\ offsets[i][2] <= n /\ -offsets[i][2] <= n
        /\ \E i \in 1..Len(offsets) :
              \/ offsets[i][1] = n \/ -offsets[i][1] = n
              \/ offsets[i][2] = n \/ -offsets[i][2] = n

GliderSpan == Span(GliderOffsets)

PulsarSpan == Span(PulsarOffsets)

\* xx of the loop body of add_glider and add_pulsar, for the offset x:
\* (row + x).rem_euclid(self.height as i32), the sum as the release build
\* computes it.
StampRow(h, row, x) == rem_euclid(as_i32(row + x), as_i32(h))

\* yy of the loop body: (col + y).rem_euclid(self.width as i32)
StampCol(w, col, y) == rem_euclid(as_i32(col + y), as_i32(w))

\* idx of the loop body: get_index(xx as u32, yy as u32)
StampIndex(w, h, row, col, offset) ==
    get_index(w, as_u32(StampRow(h, row, offset[1])), as_u32(StampCol(w, col, offset[2])))

\* A sum of the loop body, or its get_index, overflows. xx and yy are a row
\* and a column of the grid, so that their index is below width * height and
\* overflows only if that product does.
StampOverflows(w, h, row, col, offset) ==
    LET xsum == row + offset[1]
        ysum == col + offset[2]
    IN  \/ xsum < IntMin
        \/ xsum > IntMax
        \/ ysum < IntMin
        \/ ysum > IntMax
        \/ /\ w * h > Word
           /\ IndexOverflows(w, as_u32(StampRow(h, row, offset[1])),
                                as_u32(StampCol(w, col, offset[2])))

\* The pass of the loop for this offset panics: a remainder that panics, an
\* index outside the buffer, or in the debug build an overflow.
StampPassPanics(build, cs, w, h, row, col, offset) ==
    \/ build = "debug" /\ StampOverflows(w, h, row, col, offset)
    \/ RemPanics(as_i32(row + offset[1]), as_i32(h))
    \/ RemPanics(as_i32(col + offset[2]), as_i32(w))
    \/ StampIndex(w, h, row, col, offset) >= Len(cs)

\* A loop that wraps with the remainder operator %, which keeps the sign of
\* the sum, where the code calls rem_euclid.
StampIndicesRem(w, h, row, col, offsets) ==
    {get_index(w, IF row + offsets[i][1] < 0
                  THEN as_u32(-((-(row + offsets[i][1])) % h))
                  ELSE (row + offsets[i][1]) % h,
                  IF col + offsets[i][2] < 0
                  THEN as_u32(-((-(col + offsets[i][2])) % w))
                  ELSE (col + offsets[i][2]) % w) :
        i \in 1..Len(offsets)}

\* The indices the loop of add_glider and add_pulsar writes when no pass
\* panics: StampIndex of every offset, the casts of height and width and
\* the sizes rem_euclid divides by taken once (xx and yy are not negative:
\* as u32 keeps them).
StampIndices(w, h, row, col, offsets) ==
    LET h32 == as_i32(h)
        w32 == as_i32(w)
        rows == IF h32 < 0 THEN -h32 ELSE h32
        cols == IF w32 < 0 THEN -w32 ELSE w32
    IN  {get_index(w, as_i32(row + offsets[i][1]) % rows,
                      as_i32(col + offsets[i][2]) % cols) :
            i \in 1..Len(offsets)}

\* The buffer cs with the cells at the indices written made Alive.
Written(cs, written) ==
    LET indices == written
    IN  [i \in 1..Len(cs) |-> IF (i - 1) \in indices THEN Alive ELSE cs[i]]

\* The buffer the loop leaves when no pass panics: every write is
\* self.cells[idx] = Cell::Alive, so the order of the writes does not show.
Stamp(cs, w, h, row, col, offsets) ==
    Written(cs, StampIndices(w, h, row, col, offsets))

\* No pass of the loop can panic, for height and width other than 0: the
\* release build, a buffer of at least width * height cells (the indices are
\* below that) and neither divisor -1.
StampPlain(build, cs, w, h) ==
    /\ build = "release"
    /\ Len(cs) >= w * h
    /\ as_i32(h) # -1
    /\ as_i32(w) # -1

\* The number of the first pass of the loop that panics, Len(offsets) + 1 if
\* the loop runs to the end.
StampFirstPanic(build, cs, w, h, row, col, offsets) ==
    IF StampPlain(build, cs, w, h)
    THEN Len(offsets) + 1
    ELSE LET failing == {i \in 1..Len(offsets) :
                           StampPassPanics(build, cs, w, h, row, col, offsets[i])}
         IN  IF failing = {}
             THEN Len(offsets) + 1
             ELSE CHOOSE i \in failing : \A j \in failing : i <= j

\* The buffer the loop of add_glider and add_pulsar leaves, for height and
\* width other than 0: the writes of the passes before the first that panics.
StampRun(build, cs, w, h, row, col, offsets) ==
    IF StampPlain(build, cs, w, h)
    THEN Stamp(cs, w, h, row, col, offsets)
    ELSE LET first == StampFirstPanic(build, cs, w, h, row, col, offsets)
         IN  Written(cs, {StampIndex(w, h, row, col, offsets[i]) :
                             i \in 1..(first - 1)})

\* A set_cells that toggles each listed cell.
RECURSIVE SetCellsToggles(_, _, _, _)
SetCellsToggles(build, cs, w, coords) ==
    IF coords = <<>>
    THEN [cells |-> cs, ok |-> TRUE]
    ELSE LET idx == get_index(w, coords[1][1], coords[1][2])
         IN  IF \/ idx >= Len(cs)
                \/ build = "debug" /\ IndexOverflows(w, coords[1][1], coords[1][2])
             THEN [cells |-> cs, ok |-> FALSE]
             ELSE SetCellsToggles(build, [cs EXCEPT ![idx + 1] = toggle(cs[idx + 1])],
                                  w, Tail(coords))

\* The loop of set_cells: the buffer it leaves, and whether it ran to the end
\* (ok) or panicked at an index outside the buffer or, in the debug build, at
\* an overflow of get_index, the writes before it done.
RECURSIVE SetCellsRun(_, _, _, _)
SetCellsRun(build, cs, w, coords) ==
    IF coords = <<>>
    THEN [cells |-> cs, ok |-> TRUE]
    ELSE LET idx == get_index(w, coords[1][1], coords[1][2])
         IN  IF \/ idx >= Len(cs)
                \/ build = "debug" /\ IndexOverflows(w, coords[1][1], coords[1][2])
             THEN [cells |-> cs, ok |-> FALSE]
             ELSE SetCellsRun(build, [cs EXCEPT ![idx + 1] = Alive], w, Tail(coords))

(* ------------------------------- state -------------------------------- *)

\* The three fields of the Universe, as one value.
Universe == [width |-> width, height |-> height, cells |-> cells]

\* new(): every cell drawn at random.
Init ==
    /\ width = DefaultWidth
    /\ height = DefaultHeight
    /\ cells \in RandomCells(DefaultWidth * DefaultHeight)
    /\ status = "ok"
    /\ edit = [op |-> "new", arg |-> <<>>]
    /\ again = FALSE
    /\ ticks = 0
    /\ pre = Universe
    /\ pc = "idle"
    /\ next = <<>>
    /\ k = 0

\* A whole call of an operation other than tick: the fields it leaves, and
\* whether it returned ("ok") or panicked. A panic ends the program.
Call(o, a, w, h, cs, st) ==
    /\ status = "ok"
    /\ pc = "idle"
    /\ width' = w
    /\ height' = h
    /\ cells' = cs
    /\ status' = st
    /\ edit' = [op |-> o, arg |-> a]
    /\ again' = (ticks = 0 /\ edit = [op |-> o, arg |-> a])
    /\ ticks' = 0
    /\ pre' = Universe
    /\ UNCHANGED <<pc, next, k>>

(* ----------------------------- operations ----------------------------- *)

\* A set_width that changes the width and keeps the buffer.
SetWidthKeepsBuffer(u, w) == [width |-> w, height |-> u.height, cells |-> u.cells]

\* The fields set_width(w) leaves when it returns: the product is the u32
\* product, which wraps in the release build.
SetWidthResult(u, w) ==
    [width |-> w, height |-> u.height, cells |-> DeadCells((w * u.height) % Word)]

\* A set_height that reshapes: it keeps the cells that fit the new buffer.
SetHeightKeepsCells(u, h) ==
    [width |-> u.width, height |-> h,
     cells |-> [i \in 1..(u.width * h) |->
                   IF i <= Len(u.cells) THEN u.cells[i] ELSE Dead]]

\* The fields set_height(h) leaves when it returns.
SetHeightResult(u, h) ==
    [width |-> u.width, height |-> h, cells |-> DeadCells((u.width * h) % Word)]

\* A kill that makes Dead the cells of the first row only.
KillFirstRow(u) ==
    [width |-> u.width, height |-> u.height,
     cells |-> [i \in 1..Len(u.cells) |-> IF i <= u.width THEN Dead ELSE u.cells[i]]]

\* The fields kill() leaves when it returns.
KillResult(u) ==
    [width |-> u.width, height |-> u.height,
     cells |-> DeadCells((u.width * u.height) % Word)]

\* The buffer toggle_cell leaves when idx is inside the buffer.
ToggleResult(cs, idx) == [cs EXCEPT ![idx + 1] = toggle(cs[idx + 1])]

\* set_width(w): self.width = width, then the new buffer. In the debug build
\* an overflow of width * self.height panics, the width already stored.
set_width(w) ==
    \E build \in BuildsOf(w * height >= Word) :
        IF build = "debug"
        THEN Call("set_width", <<w>>, w, height, cells, "panicked")
        ELSE LET r == SetWidthResult(Universe, w)
             IN  Call("set_width", <<w>>, r.width, r.height, r.cells, "ok")

set_height(h) ==
    \E build \in BuildsOf(width * h >= Word) :
        IF build = "debug"
        THEN Call("set_height", <<h>>, width, h, cells, "panicked")
        ELSE LET r == SetHeightResult(Universe, h)
             IN  Call("set_height", <<h>>, r.width, r.height, r.cells, "ok")

\* set_width(w) for a buffer of at most MaxCells cells.
SetWidth(w) ==
    /\ w * height <= MaxCells
    /\ set_width(w)

\* set_height(h) for a buffer of at most MaxCells cells.
SetHeight(h) ==
    /\ width * h <= MaxCells
    /\ set_height(h)

Kill ==
    \E build \in BuildsOf(width * height >= Word) :
        IF build = "debug"
        THEN Call("kill", <<>>, width, height, cells, "panicked")
        ELSE LET r == KillResult(Universe)
             IN  Call("kill", <<>>, r.width, r.height, r.cells, "ok")

\* reset(): a buffer of self.width * self.height cells drawn at random. In
\* the debug build an overflow of the product panics.
reset ==
    \E build \in BuildsOf(width * height >= Word) :
        IF build = "debug"
        THEN Call("reset", <<>>, width, height, cells, "panicked")
        ELSE \E cs \in RandomCells((width * height) % Word) :
                Call("reset", <<>>, width, height, cs, "ok")

\* reset() on a grid of at most MaxRandom cells.
Reset ==
    /\ width * height <= MaxRandom
    /\ reset

\* render(): to_string() runs Display::fmt, which cuts the buffer into
\* chunks(self.width) and writes one line of glyphs per chunk. chunks panics
\* on a chunk size of 0, whatever the buffer holds; for any other width the
\* text is returned and the Universe is left as it was.
Render ==
    Call("render", <<>>, width, height, cells,
         IF width = 0 THEN "panicked" ELSE "ok")

\* toggle_cell(row, col): indexing outside the buffer panics, and so does,
\* in the debug build, an overflow of get_index.
ToggleCell(row, col) ==
    \E build \in BuildsOf(IndexOverflows(width, row, col)) :
        LET idx == get_index(width, row, col)
        IN  IF build = "release" /\ idx < Len(cells)
            THEN Call("toggle_cell", <<row, col>>, width, height,
                      ToggleResult(cells, idx), "ok")
            ELSE Call("toggle_cell", <<row, col>>, width, height, cells, "panicked")

SetCells(coords) ==
    \E build \in BuildsOf(\E i \in 1..Len(coords) :
                              IndexOverflows(width, coords[i][1], coords[i][2])) :
        \E r \in {SetCellsRun(build, cells, width, coords)} :
            Call("set_cells", coords, width, height, r.cells,
                 IF r.ok THEN "ok" ELSE "panicked")

\* The loop of add_glider and add_pulsar as a call, for a table of offsets
\* of the given span: rem_euclid by a zero height or width panics before any
\* cell is written. A sum overflows only for a row or col within the span of
\* IntMin or IntMax, an index only if width * height overflows.
StampCall(o, row, col, offsets, span) ==
    IF height = 0 \/ width = 0
    THEN Call(o, <<row, col>>, width, height, cells, "panicked")
    ELSE \E build \in BuildsOf(
              /\ \/ row - span < IntMin
                 \/ row + span > IntMax
                 \/ col - span < IntMin
                 \/ col + span > IntMax
                 \/ width * height > Word
              /\ \E i \in 1..Len(offsets) :
                    StampOverflows(width, height, row, col, offsets[i])) :
            Call(o, <<row, col>>, width, height,
                 StampRun(build, cells, width, height, row, col, offsets),
                 IF StampFirstPanic(build, cells, width, height, row, col, offsets)
                        > Len(offsets)
                 THEN "ok" ELSE "panicked")

AddGlider(row, col) == StampCall("add_glider", row, col, GliderOffsets, GliderSpan)

AddPulsar(row, col) == StampCall("add_pulsar", row, col, PulsarOffsets, PulsarSpan)

\* tick(), as one step. A panic leaves self.cells as it was: next is dropped.
Tick ==
    /\ status = "ok"
    /\ pc = "idle"
    /\ \E build \in BuildsOf(TickOverflows(width, height)) :
          IF TickPanics(build, cells, width, height)
          THEN cells' = cells /\ status' = "panicked"
          ELSE cells' = TickCells(cells, width, height) /\ status' = status
    /\ ticks' = ticks + 1
    /\ again' = FALSE
    /\ pre' = Universe
    /\ UNCHANGED <<width, height, edit, pc, next, k>>

(* ------------------------------ inputs -------------------------------- *)

Dims == 0..MaxDim

\* Rows and columns for toggle_cell and set_cells: all in range on the
\* largest grid, some out of range on the smaller ones.
Indices == 0..(MaxDim - 1)

\* Signed rows and columns for add_glider and add_pulsar: one of every
\* residue modulo the largest side, -1 among them.
Positions == (-1)..(MaxDim - 2)

\* Pairs for set_cells: rows 0 and 1, every column.
Coords == (0..1) \X Indices

\* The slices set_cells is called with: up to two pairs.
CoordLists ==
    {<<>>} \cup {<<p>> : p \in Coords} \cup {<<p, q>> : p \in Coords, q \in Coords}

Next ==
    \/ \E w \in Dims : SetWidth(w)
    \/ \E h \in Dims : SetHeight(h)
    \/ Kill
    \/ Reset
    \/ Render
    \/ \E row \in Indices, col \in Indices : ToggleCell(row, col)
    \/ \E coords \in CoordLists : SetCells(coords)
    \/ \E row \in Positions, col \in Positions : AddGlider(row, col)
    \/ \E pos \in Positions : AddPulsar(pos, pos)
    \/ (ticks < MaxTicks /\ Tick)
    \/ (ticks < DeadTicks /\ cells = DeadCells(Len(cells)) /\ Tick)

Spec == Init /\ [][Next]_vars

\* The last operation that ran.
LastOp == IF ticks > 0 THEN "tick" ELSE edit.op

(* --------------------- tick(), one cell at a time ---------------------- *)

\* A tick that updates the grid in place: the new cell goes to self.cells too.
TickStoreInPlace(cs, nx, w, h, idx) ==
    [cells |-> [cs EXCEPT ![idx + 1] = TickCellValue(cs, w, h, idx)],
     next |-> [nx EXCEPT ![idx + 1] = TickCellValue(cs, w, h, idx)]]

\* One pass of tick's inner loop, at idx = row * width + col: it reads
\* self.cells and writes next[idx]; self.cells is left as it was.
TickStore(cs, nx, w, h, idx) ==
    [cells |-> cs, next |-> [nx EXCEPT ![idx + 1] = TickCellValue(cs, w, h, idx)]]

\* let mut next = self.cells.clone();
TickBegin ==
    /\ status = "ok"
    /\ pc = "idle"
    /\ pc' = "tick"
    /\ next' = cells
    /\ k' = 0
    /\ pre' = Universe
    /\ again' = FALSE
    /\ UNCHANGED <<width, height, cells, status, edit, ticks>>

\* The loops over row and col visit idx = 0, 1, ... width * height - 1 in order.
TickCell ==
    /\ pc = "tick"
    /\ k < width * height
    /\ LET r == TickStore(cells, next, width, height, k)
       IN  /\ cells' = r.cells
           /\ next' = r.next
    /\ k' = k + 1
    /\ UNCHANGED <<width, height, status, edit, again, ticks, pre, pc>>

\* self.cells = next;
TickEnd ==
    /\ pc = "tick"
    /\ k = width * height
    /\ cells' = next
    /\ pc' = "idle"
    /\ next' = <<>>
    /\ k' = 0
    /\ ticks' = ticks + 1
    /\ UNCHANGED <<width, height, status, edit, again, pre>>

NextSteps ==
    \/ \E w \in Dims : SetWidth(w)
    \/ \E h \in Dims : SetHeight(h)
    \/ \E row \in Indices, col \in Indices : ToggleCell(row, col)
    \/ (ticks < MaxTicks /\ TickBegin)
    \/ TickCell
    \/ TickEnd

SpecSteps == Init /\ [][NextSteps]_vars

(* ------------------------- pattern scenarios -------------------------- *)

\* The grids of the scenarios: square and not, and the smallest grid on
\* which no two cells of a pulsar wrap onto each other.
SeedGrids ==
    ({SeedDim, SeedDim + 1} \X {SeedDim, SeedDim + 1})
        \cup ({PulsarDim, PulsarDim + 1} \X {PulsarDim, PulsarDim + 1})
        \cup {<<2 * PulsarSpan + 1, 2 * PulsarSpan + 1>>}

SeedPositions == (-1)..SeedPos

\* The in-range pairs of a 2 x 2 block whose top left cell is (row, col),
\* wrapped at the edges.
BlockCoords(row, col, w, h) ==
    << <<row, col>>, <<row, (col + 1) % w>>,
       <<(row + 1) % h, col>>, <<(row + 1) % h, (col + 1) % w>> >>

\* An empty grid: the state after set_width, set_height and kill.
InitSeeded ==
    /\ \E g \in SeedGrids :
          /\ width = g[1]
          /\ height = g[2]
          /\ cells = DeadCells(g[1] * g[2])
    /\ status = "ok"
    /\ edit = [op |-> "kill", arg |-> <<>>]
    /\ again = FALSE
    /\ ticks = 0
    /\ pre = Universe
    /\ pc = "idle"
    /\ next = <<>>
    /\ k = 0

\* One pattern is stamped on the empty grid, then tick() runs up to SeedTicks
\* times.
NextSeeded ==
    \/ \E row \in SeedPositions, col \in SeedPositions :
          edit.op = "kill" /\ AddGlider(row, col)
    \/ \E row \in SeedPositions, col \in SeedPositions :
          edit.op = "kill" /\ AddPulsar(row, col)
    \/ \E row \in 0..(height - 1), col \in 0..(width - 1) :
          /\ edit.op = "kill"
          /\ row <= SeedPos
          /\ col <= SeedPos
          /\ SetCells(BlockCoords(row, col, width, height))
    \/ (edit.op # "kill" /\ ticks < SeedTicks /\ Tick)

SpecSeeded == InitSeeded /\ [][NextSeeded]_vars

(* ---------------------- the ends of the words ------------------------- *)

\* The first height that is negative as i32.
Half == Word \div 2

\* The least power of two whose square overflows a word.
Root == 2 ^ ((WordBits + 1) \div 2)

\* Widths and heights up to the ends of u32: a product of two of them can
\* overflow, and so can a sum of two rows.
WordDims == {1, 2, 3, Root, Half + 1}

\* Rows and columns at the ends of i32 and next to them.
WordPositions == {IntMin, IntMin + 1, 0, IntMax - 1, IntMax}

\* No cell has been written since the grid was last built.
Fresh == ticks = 0 /\ edit.op \in {"new", "set_width", "set_height", "kill", "reset"}

\* The grid is resized to any of WordDims and rebuilt, then one cell is
\* toggled or a glider is stamped, then tick() runs.
NextWord ==
    \/ \E w \in WordDims : Fresh /\ set_width(w)
    \/ \E h \in WordDims : Fresh /\ set_height(h)
    \/ (Fresh /\ edit.op # "kill" /\ Kill)
    \/ (Fresh /\ edit.op # "reset" /\ (width * height) % Word <= MaxRandom /\ reset)
    \/ \E row \in {0, 1}, col \in {0, 1} : Fresh /\ ToggleCell(row, col)
    \/ \E row \in WordPositions, col \in WordPositions : Fresh /\ AddGlider(row, col)
    \/ (ticks < MaxTicks /\ Tick)

SpecWord == Init /\ [][NextWord]_vars

(* ------------------- what the properties refer to --------------------- *)

\* The cell at (row + dr, column + dc) of the torus: the row wraps against
\* the height, the column against the width.
WrappedCell(cs, w, h, row, column, dr, dc) ==
    cs[((row + dr) % h) * w + ((column + dc) % w) + 1]

\* The number of Alive cells among the 8 wrapped neighbours of (row, column).
ToroidalCount(cs, w, h, row, column) ==
      WrappedCell(cs, w, h, row, column, -1, -1)
    + WrappedCell(cs, w, h, row, column, -1, 0)
    + WrappedCell(cs, w, h, row, column, -1, 1)
    + WrappedCell(cs, w, h, row, column, 0, -1)
    + WrappedCell(cs, w, h, row, column, 0, 1)
    + WrappedCell(cs, w, h, row, column, 1, -1)
    + WrappedCell(cs, w, h, row, column, 1, 0)
    + WrappedCell(cs, w, h, row, column, 1, 1)

\* Conway's rule B3/S23.
ConwayRule(cell, n) ==
    IF cell = Alive
    THEN (IF n = 2 \/ n = 3 THEN Alive ELSE Dead)
    ELSE (IF n = 3 THEN Alive ELSE Dead)

\* The 0-based indices of the Alive cells of a buffer.
AliveAt(cs) == {i \in 0..(Len(cs) - 1) : cs[i + 1] = Alive}

\* (row, col) is a cell of a w x h grid.
InRange(w, h, row, col) == row >= 0 /\ row < h /\ col >= 0 /\ col < w

\* The buffer cs with the cell at idx made Dead.
Without(cs, idx) == [cs EXCEPT ![idx + 1] = Dead]

(* ------------------------------- C1 ----------------------------------- *)

\* C1: on every grid with width >= 1 and height >= 1, square or not, one
\* tick() leaves in each cell (row, column) the state Conway's rule B3/S23
\* gives for its state before the tick and the number of Alive cells among
\* its 8 toroidally wrapped neighbours before the tick.
C1_TickIsConway ==
    (LastOp = "tick" /\ pre.width >= 1 /\ pre.height >= 1) =>
        /\ width = pre.width
        /\ height = pre.height
        /\ Len(cells) = Len(pre.cells)
        /\ \A row \in 0..(height - 1), col \in 0..(width - 1) :
              cells[row * width + col + 1] =
                  ConwayRule(pre.cells[row * width + col + 1],
                             ToroidalCount(pre.cells, width, height, row, col))

(* ------------------------------- C2 ----------------------------------- *)

\* C2: on every grid with width >= 1 and height >= 1 and for every in-range
\* (row, column), live_neighbor_count(row, column) is the sum of the values
\* of the 8 cells at ((row + dr) mod height, (column + dc) mod width), and
\* lies in 0..8.
C2_NeighborCountIsToroidal ==
    \A row \in 0..(height - 1), col \in 0..(width - 1) :
        /\ live_neighbor_count(cells, width, height, row, col)
              = ToroidalCount(cells, width, height, row, col)
        /\ live_neighbor_count(cells, width, height, row, col) \in 0..8

(* ------------------------------- C3 ----------------------------------- *)

\* C3: in every state reached by any sequence of new, set_width, set_height,
\* reset, kill, tick, toggle_cell, set_cells, add_glider and add_pulsar, the
\* length of the cell buffer is width * height.
C3_LengthIsWidthTimesHeight == Len(cells) = width * height

\* A resize that changed the length of the buffer.
C3_Witness ==
    /\ LastOp = "set_width"
    /\ status = "ok"
    /\ Len(cells) # Len(pre.cells)
    /\ Len(cells) > 0

(* ------------------------------- C4 ----------------------------------- *)

\* The grid u has one Alive cell, and none of its 8 wrapped neighbours is
\* Alive (on a grid of one row or one column a cell is its own neighbour).
LoneIsolatedCell(u) ==
    /\ u.width >= 1
    /\ u.height >= 1
    /\ Cardinality(AliveAt(u.cells)) = 1
    /\ \A idx \in AliveAt(u.cells) :
          ToroidalCount(u.cells, u.width, u.height, idx \div u.width, idx % u.width) = 0

\* C4: while tick() computes the next generation cell by cell, the cell
\* buffer is still the grid from before the tick, every cell computed so far
\* was computed from that grid, and the cells not yet visited hold their
\* clone; the buffer changes once, at the end, to the whole next generation
\* of the grid from before the tick. A grid whose only Alive cell is isolated
\* is all Dead after the tick.
C4_TickAtomic ==
    /\ pc = "tick" =>
          /\ Universe = pre
          /\ Len(next) = Len(pre.cells)
          /\ \A i \in 1..Len(next) :
                next[i] = IF i <= k
                          THEN TickCellValue(pre.cells, pre.width, pre.height, i - 1)
                          ELSE pre.cells[i]
    /\ (pc = "idle" /\ LastOp = "tick") =>
          /\ width = pre.width
          /\ height = pre.height
          /\ Len(cells) = Len(pre.cells)
          /\ \A i \in 1..Len(cells) :
                cells[i] = TickCellValue(pre.cells, pre.width, pre.height, i - 1)
          /\ LoneIsolatedCell(pre) => AliveAt(cells) = {}

\* tick() is half way through a grid in which the cells computed so far
\* differ from the cells they replace.
C4_Witness ==
    /\ pc = "tick"
    /\ k > 0
    /\ k < width * height
    /\ \E i \in 1..k : next[i] # cells[i]

(* ------------------------------- C5 ----------------------------------- *)

\* An Alive cell at (r1, c1) is counted in live_neighbor_count(r2, c2): with
\* that cell Dead the count is smaller.
CountedIn(r1, c1, r2, c2) ==
    cells[get_index(width, r1, c1) + 1] = Alive =>
        live_neighbor_count(cells, width, height, r2, c2)
            > live_neighbor_count(Without(cells, get_index(width, r1, c1)),
                                  width, height, r2, c2)

\* C5: on every grid with width >= 1 and height >= 1, square or not, an
\* Alive cell at (0, 0) is counted in live_neighbor_count of
\* (height - 1, width - 1), of (height - 1, 0) and of (0, width - 1), and an
\* Alive cell at each of these is counted in live_neighbor_count(0, 0).
C5_CornersWrap ==
    (width >= 1 /\ height >= 1) =>
        \A corner \in {<<height - 1, width - 1>>, <<height - 1, 0>>, <<0, width - 1>>} :
            /\ CountedIn(0, 0, corner[1], corner[2])
            /\ CountedIn(corner[1], corner[2], 0, 0)

(* ------------------------------- C6 ----------------------------------- *)

\* C6: on an all-Dead grid with no side shorter than SeedDim, square or
\* not, add_glider(r, c) and then 4 calls of tick() leave the grid that
\* add_glider(r + 1, c + 1) leaves on the all-Dead grid.
C6_GliderTranslation ==
    (edit.op = "add_glider" /\ ticks = 4 /\ width >= SeedDim /\ height >= SeedDim) =>
        cells = Stamp(DeadCells(width * height), width, height,
                      edit.arg[1] + 1, edit.arg[2] + 1, GliderOffsets)

(* ------------------------------- C7 ----------------------------------- *)

\* The only Alive cells of u are the four cells of a 2 x 2 block.
BlockOnly(u) ==
    \E row \in 0..(u.height - 1), col \in 0..(u.width - 1) :
        /\ Cardinality(AliveAt(u.cells)) = 4
        /\ AliveAt(u.cells) =
              {get_index(u.width, p[1], p[2]) :
                  p \in {BlockCoords(row, col, u.width, u.height)[i] : i \in 1..4}}

\* C7: a grid whose only Alive cells are a 2 x 2 block, at any position and
\* across the edges, on a grid that holds the block clear of itself (no side
\* shorter than 3), is left unchanged by tick().
C7_StableBlock ==
    (LastOp = "tick" /\ pre.width >= 3 /\ pre.height >= 3 /\ BlockOnly(pre)) =>
        Universe = pre

(* ------------------------------- C8 ----------------------------------- *)

\* C8: on an all-Dead grid with no side shorter than PulsarDim,
\* add_pulsar(r, c) and then 3 calls of tick() leave the grid that stood
\* right after add_pulsar, and 1 and 2 calls leave other grids.
C8_PulsarPeriod ==
    (edit.op = "add_pulsar" /\ width >= PulsarDim /\ height >= PulsarDim) =>
        LET stamped == Stamp(DeadCells(width * height), width, height,
                             edit.arg[1], edit.arg[2], PulsarOffsets)
        IN  /\ ticks = 0 => cells = stamped
            /\ ticks = 3 => cells = stamped
            /\ ticks \in {1, 2} => cells # stamped

(* ------------------------------- C9 ----------------------------------- *)

\* C9: from any state, set_width(w) leaves width = w, the height as it was
\* and w * height cells, all Dead; set_height(h) leaves height = h, the
\* width as it was and width * h cells, all Dead.
C9_ResizeClears ==
    /\ LastOp = "set_width" =>
          /\ status = "ok"
          /\ width = edit.arg[1]
          /\ height = pre.height
          /\ cells = DeadCells(edit.arg[1] * pre.height)
    /\ LastOp = "set_height" =>
          /\ status = "ok"
          /\ height = edit.arg[1]
          /\ width = pre.width
          /\ cells = DeadCells(pre.width * edit.arg[1])

\* set_height on a grid with Alive cells, to another height and a grid that
\* is not empty.
C9_Witness ==
    /\ LastOp = "set_height"
    /\ AliveAt(pre.cells) # {}
    /\ height # pre.height
    /\ Len(cells) > 0

(* ------------------------------- C10 ---------------------------------- *)

\* toggle_cell(row, col) was the last call, with (row, col) in range.
ToggledInRange ==
    /\ LastOp = "toggle_cell"
    /\ InRange(pre.width, pre.height, edit.arg[1], edit.arg[2])

\* toggle_cell(r, c) with (r, c) in range returns, flips the cell at index
\* r * width + c and leaves every other cell, width and height as they were.
C10_ToggleFlipsOne ==
    ToggledInRange =>
        /\ status = "ok"
        /\ width = pre.width
        /\ height = pre.height
        /\ Len(cells) = Len(pre.cells)
        /\ \A i \in 1..Len(cells) :
              IF i = edit.arg[1] * pre.width + edit.arg[2] + 1
              THEN cells[i] # pre.cells[i]
              ELSE cells[i] = pre.cells[i]

\* C10: toggle_cell(r, c) with (r, c) in range flips exactly the cell at
\* index r * width + c, and a second toggle_cell(r, c) right after the first
\* restores the Universe that stood before the first.
C10_ToggleTwice ==
    /\ []C10_ToggleFlipsOne
    /\ [][(ToggledInRange /\ LastOp' = "toggle_cell" /\ again')
             => (status' = "ok" /\ Universe' = pre)]_vars

\* The second of two toggle_cell calls in a row on the same cell, in range,
\* has returned, on a grid with Alive and Dead cells.
C10_Witness ==
    /\ ToggledInRange
    /\ again
    /\ status = "ok"
    /\ AliveAt(cells) # {}
    /\ Cardinality(AliveAt(cells)) < Len(cells)

(* ------------------------------- C12 ---------------------------------- *)

\* Every pair of the list is a cell of the grid u.
AllInRange(u, coords) ==
    \A i \in 1..Len(coords) : InRange(u.width, u.height, coords[i][1], coords[i][2])

\* C12: in every reachable state, a zero width or height included, a call of
\* tick, kill, reset, render, add_glider or add_pulsar with any row and col,
\* and a call of toggle_cell or set_cells with every coordinate in range,
\* returns: none panics.
C12_NoOperationFails ==
    (\/ LastOp \in {"tick", "kill", "reset", "render", "add_glider", "add_pulsar"}
     \/ (LastOp = "toggle_cell" /\ InRange(pre.width, pre.height, edit.arg[1], edit.arg[2]))
     \/ (LastOp = "set_cells" /\ AllInRange(pre, edit.arg)))
        => status = "ok"

(* ------------------------------- C13 ---------------------------------- *)

\* The indices of the cells at ((row + dr) mod h, (col + dc) mod w) of a
\* w x h grid, for the pairs (dr, dc) of a table of offsets.
WrappedCells(w, h, row, col, offsets) ==
    {((row + offsets[i][1]) % h) * w + ((col + offsets[i][2]) % w) :
        i \in 1..Len(offsets)}

\* C13: add_glider(row, col), for every signed row and col on a grid with
\* width >= 1 and height >= 1, returns, makes Alive the cells at
\* ((row + dr) mod height, (col + dc) mod width) for (dr, dc) in
\* {(-1,0), (0,1), (1,-1), (1,0), (1,1)}, and leaves every other cell, the
\* width and the height as they were.
C13_GliderStamp ==
    (LastOp = "add_glider" /\ pre.width >= 1 /\ pre.height >= 1) =>
        /\ status = "ok"
        /\ width = pre.width
        /\ height = pre.height
        /\ Len(cells) = Len(pre.cells)
        /\ \A i \in 1..Len(cells) :
              cells[i] =
                  IF (i - 1) \in WrappedCells(pre.width, pre.height, edit.arg[1], edit.arg[2],
                          << <<-1, 0>>, <<0, 1>>, <<1, -1>>, <<1, 0>>, <<1, 1>> >>)
                  THEN Alive
                  ELSE pre.cells[i]

(* ------------------------------- C14 ---------------------------------- *)

\* add_pulsar was the last call, on a grid with no Alive cell.
PulsarOnEmpty ==
    /\ LastOp = "add_pulsar"
    /\ AliveAt(pre.cells) = {}

C15_KillResetFrame ==
    /\ LastOp = "kill" =>
          /\ status = "ok"
          /\ width = pre.width
          /\ height = pre.height
          /\ Len(cells) = pre.width * pre.height
          /\ \A i \in 1..Len(cells) : cells[i] = Dead
    /\ LastOp = "reset" =>
          /\ status = "ok"
          /\ width = pre.width
          /\ height = pre.height
          /\ Len(cells) = pre.width * pre.height
          /\ \A i \in 1..Len(cells) : cells[i] \in CellValues

\* kill() on a grid that is not square and whose last row had an Alive cell.
C15_Witness ==
    /\ LastOp = "kill"
    /\ status = "ok"
    /\ width # height
    /\ \E i \in AliveAt(pre.cells) : i >= width * (height - 1)

(* ------------------------------- C16 ---------------------------------- *)

\* set_cells(coords) was the last call, with every pair in range.
SetInRange ==
    /\ LastOp = "set_cells"
    /\ AllInRange(pre, edit.arg)

\* set_cells(coords) with every pair in range returns, leaves Alive each
\* listed cell, whatever it was, and leaves every cell not listed, the width
\* and the height as they were.
C16_SetCellsFrame ==
    SetInRange =>
        /\ status = "ok"
        /\ width = pre.width
        /\ height = pre.height
        /\ Len(cells) = Len(pre.cells)
        /\ \A i \in 1..Len(cells) :
              cells[i] =
                  IF \E j \in 1..Len(edit.arg) :
                        i = edit.arg[j][1] * pre.width + edit.arg[j][2] + 1
                  THEN Alive
                  ELSE pre.cells[i]

\* C16: set_cells(coords) with every pair in range makes each listed cell
\* Alive and leaves every other cell, the width and the height unchanged,
\* and the same set_cells(coords) right after it changes nothing.
C16_SetCellsTwice ==
    /\ []C16_SetCellsFrame
    /\ [][(SetInRange /\ LastOp' = "set_cells" /\ again')
             => (status' = "ok" /\ Universe' = Universe)]_vars

\* The second of two equal set_cells calls in a row has returned: two
\* different cells listed, in range, on a grid that keeps a Dead cell.
C16_Witness ==
    /\ SetInRange
    /\ again
    /\ status = "ok"
    /\ Len(edit.arg) = 2
    /\ edit.arg[1] # edit.arg[2]
    /\ Cardinality(AliveAt(cells)) < Len(cells)

(* ------------------------------- C17 ---------------------------------- *)

\* C17: in machine arithmetic, the buffer that set_width, set_height, kill
\* and reset allocate has the mathematical product width * height as its
\* length, and for every row < height and column < width get_index(row,
\* column) is the mathematical value row * width + column, is smaller than
\* the length of the buffer, and differs from the index of every other pair.
C17_IndexingExact ==
    /\ LastOp \in {"set_width", "set_height", "kill", "reset"} =>
          /\ status = "ok"
          /\ Len(cells) = width * height
    /\ status = "ok" =>
          /\ \A row \in 0..(height - 1), col \in 0..(width - 1) :
                /\ get_index(width, row, col) = row * width + col
                /\ get_index(width, row, col) < Len(cells)
          /\ Cardinality({get_index(width, row, col) :
                             row \in 0..(height - 1), col \in 0..(width - 1)})
                = width * height

(* ------------------------------- C18 ---------------------------------- *)

\* C18: tick() on a grid with width >= 1 and height >= 1, square or not,
\* returns: every index it and live_neighbor_count read or write is below
\* the length of the buffer, and no sum or product of the neighbour
\* computation overflows.
C18_TickInBounds ==
    (LastOp = "tick" /\ pre.width >= 1 /\ pre.height >= 1) =>
        /\ status = "ok"
        /\ ~TickOverflows(pre.width, pre.height)

(* ------------------------------- C19 ---------------------------------- *)

\* C19: after kill(), set_width or set_height and any number of calls of
\* tick() with no other call in between, every cell is Dead; and a cell
\* that was Dead, or was not there, before the last call is Alive after it
\* only if the call was reset, toggle_cell, set_cells, add_glider or
\* add_pulsar, or a tick of a grid that had an Alive cell.
C19_DeadIsFixed ==
    /\ edit.op \in {"kill", "set_width", "set_height"} =>
          (status = "ok" => \A i \in 1..Len(cells) : cells[i] = Dead)
    /\ (\E i \in 1..Len(cells) :
            cells[i] = Alive /\ (i > Len(pre.cells) \/ pre.cells[i] = Dead)) =>
          \/ LastOp \in {"reset", "toggle_cell", "set_cells", "add_glider", "add_pulsar"}
          \/ (LastOp = "tick" /\ AliveAt(pre.cells) # {})

\* The third tick() in a row after set_height has returned, on a grid that
\* is not square and not empty.
C19_Witness ==
    /\ edit.op = "set_height"
    /\ ticks = DeadTicks
    /\ status = "ok"
    /\ width # height
    /\ Len(cells) > 1

====
